---- MODULE Spec2Model ----
(***************************************************************************)
(* Model of the stub PortAudio backend, Sources/CPortAudio/                *)
(* stub_implementation.c.  The stub keeps no state of its own apart from   *)
(* the two function-local static device descriptors; the rest of the state *)
(* below is the caller's memory the API reads or writes through pointers   *)
(* (the PaStream* variables handed to Pa_OpenStream, the sample buffer     *)
(* handed to Pa_ReadStream / Pa_WriteStream), a record of the last call    *)
(* with its arguments and result, and a summary of the call before it.     *)
(*                                                                         *)
(* Pointers are modelled as strings: NULL, the address of a named object   *)
(* (&h1), or an integer cast to a pointer (PaStream_1).  The PaError       *)
(* enumerators paNoError and paInternalError come from portaudio.h, which  *)
(* is not part of the stub; they are kept symbolic.  Floating-point        *)
(* initialisers are kept as their source literals.                         *)
(***************************************************************************)
EXTENDS Integers, Sequences, FiniteSets, TLC

VARIABLES inputDevice, outputDevice, handles, buf, prev, last

vars == <<inputDevice, outputDevice, handles, buf, prev, last>>

----------------------------------------------------------------------------
(* Bounds of the model *)

\* Device indices tried are -2 .. MaxDevice (paNoDevice is -1).
MaxDevice == 3
\* Length, in frames, of the caller's sample buffer.
BufLen == 1

DeviceIndices == (-2)..MaxDevice
Samples == {0, 1}
Buffers == [1..BufLen -> Samples]
\* Frame counts tried; BufLen + 1 exceeds the buffer (no bounds checking).
Frames == 0..(BufLen + 1)

----------------------------------------------------------------------------
(* Values *)

NULL == "NULL"
paNoError == "paNoError"
paInternalError == "paInternalError"

\* The dummy handle of line 64, and some other pointer a caller may hold.
StreamSentinel == "PaStream_1"
OtherStream == "PaStream_other"
Handles == {NULL, StreamSentinel, OtherStream}

\* The caller's PaStream* variables, whose addresses are passed to Pa_OpenStream.
StreamVars == {"h1", "h2"}
StreamLocs == StreamVars \cup {NULL}

\* A callback function pointer.
Callbacks == {NULL, "&callback"}

\* The parameters Pa_OpenStream ignores.
OtherOpenArgs ==
    { [inputParameters |-> NULL, outputParameters |-> NULL, sampleRate |-> "0.0",
       framesPerBuffer |-> 0, streamFlags |-> 0, userData |-> NULL],
      [inputParameters |-> "&in", outputParameters |-> "&out", sampleRate |-> "44100.0",
       framesPerBuffer |-> 256, streamFlags |-> 1, userData |-> "&data"],
      [inputParameters |-> "&in", outputParameters |-> NULL, sampleRate |-> "-1.0",
       framesPerBuffer |-> 0, streamFlags |-> 1, userData |-> NULL],
      [inputParameters |-> NULL, outputParameters |-> "&out", sampleRate |-> "44100.0",
       framesPerBuffer |-> 256, streamFlags |-> 0, userData |-> "&data"] }

BufferPtrs == {NULL, "&buf"}

\* The outcome of a call that did not return: the process was killed.
Crash == "crash"

\* Before the first call.
NoCall == [op |-> "none", args |-> [none |-> TRUE], result |-> "none", returned |-> TRUE]

----------------------------------------------------------------------------
(* The static descriptors of Pa_GetDeviceInfo *)

InputDeviceInit ==
    [ structVersion |-> 2,
      name |-> "Default Input Device",
      hostApi |-> 0,
      maxInputChannels |-> 2,
      maxOutputChannels |-> 0,
      defaultLowInputLatency |-> "0.01",
      defaultLowOutputLatency |-> "0.0",
      defaultHighInputLatency |-> "0.1",
      defaultHighOutputLatency |-> "0.0",
      defaultSampleRate |-> "44100.0" ]

OutputDeviceInit ==
    [ structVersion |-> 2,
      name |-> "Default Output Device",
      hostApi |-> 0,
      maxInputChannels |-> 0,
      maxOutputChannels |-> 2,
      defaultLowInputLatency |-> "0.0",
      defaultLowOutputLatency |-> "0.01",
      defaultHighInputLatency |-> "0.0",
      defaultHighOutputLatency |-> "0.1",
      defaultSampleRate |-> "44100.0" ]

\* What a PaDeviceInfo pointer returned by Pa_GetDeviceInfo points at.
Deref(p) == IF p = "&inputDevice" THEN inputDevice ELSE outputDevice

----------------------------------------------------------------------------
(* Return values *)

\* A count that depends on the call history: no devices once terminated.
GetDeviceCountMutTerminated == IF last.op = "Pa_Terminate" THEN 0 ELSE 2
GetDeviceCount == 2

GetDefaultInputDevice == 0

GetDefaultOutputDevice == 1

GetDeviceInfoMutClamp(device) ==
    IF device <= 0 THEN "&inputDevice" ELSE "&outputDevice"
GetDeviceInfoMutSwap(device) ==
    IF device = 0 THEN "&outputDevice"
    ELSE IF device = 1 THEN "&inputDevice"
    ELSE NULL
GetDeviceInfo(device) ==
    IF device = 0 THEN "&inputDevice"
    ELSE IF device = 1 THEN "&outputDevice"
    ELSE NULL

\* A stub that tracked the stream: not stopped right after it was started.
IsStreamStoppedMutTracked(stream) ==
    IF last.op = "Pa_StartStream" /\ last.args.stream = stream THEN 0 ELSE 1
IsStreamStopped(stream) == 1

IsStreamActive(stream) == 0

LifecycleResultMutNull(stream) == IF stream = NULL THEN paInternalError ELSE paNoError
LifecycleResult(stream) == paNoError

TransferResultMutZero(stream, buffer, frames) ==
    IF frames = 0 \/ buffer = NULL THEN paInternalError ELSE paNoError
TransferResult(stream, buffer, frames) == paNoError

\* The buffer after Pa_ReadStream / Pa_WriteStream: untouched.
ReadBufferMutSilence(buffer, frames, b) ==
    IF buffer = NULL THEN b
    ELSE [i \in 1..BufLen |-> IF i <= frames THEN 0 ELSE b[i]]
ReadBuffer(buffer, frames, b) == b

----------------------------------------------------------------------------
(* State *)

Crashed == ~last.returned

\* What is remembered of the call before the last one.
Summary(c) ==
    [op |-> c.op,
     stream |-> IF "stream" \in DOMAIN c.args THEN c.args.stream ELSE "none",
     result |-> c.result]

\* Every call records itself; no call is made once the process has crashed.
Call(op, args, result) ==
    /\ ~Crashed
    /\ prev' = Summary(last)
    /\ last' = [op |-> op, args |-> args, result |-> result, returned |-> TRUE]

Init ==
    /\ inputDevice = InputDeviceInit
    /\ outputDevice = OutputDeviceInit
    /\ handles \in [StreamVars -> {NULL, OtherStream}]
    /\ buf \in Buffers
    /\ prev = Summary(NoCall)
    /\ last = NoCall

----------------------------------------------------------------------------
(* Operations *)

Quiet == UNCHANGED <<inputDevice, outputDevice, handles, buf>>

Pa_Initialize == Call("Pa_Initialize", [none |-> TRUE], paNoError) /\ Quiet

Pa_Terminate == Call("Pa_Terminate", [none |-> TRUE], paNoError) /\ Quiet

Pa_GetVersion == Call("Pa_GetVersion", [none |-> TRUE], 19070000) /\ Quiet

\* __DATE__ and __TIME__ are fixed when the stub is compiled.
Pa_GetVersionText ==
    Call("Pa_GetVersionText", [none |-> TRUE],
         "PortAudio V19.7.0-devel (compiled __DATE__ __TIME__)") /\ Quiet

Pa_GetDeviceCount == Call("Pa_GetDeviceCount", [none |-> TRUE], GetDeviceCount) /\ Quiet

Pa_GetDefaultInputDevice ==
    Call("Pa_GetDefaultInputDevice", [none |-> TRUE], GetDefaultInputDevice) /\ Quiet

Pa_GetDefaultOutputDevice ==
    Call("Pa_GetDefaultOutputDevice", [none |-> TRUE], GetDefaultOutputDevice) /\ Quiet

Pa_GetDeviceInfo ==
    \E device \in DeviceIndices :
        Call("Pa_GetDeviceInfo", [device |-> device], GetDeviceInfo(device)) /\ Quiet

\* Line 60: the only guarded branch of the stub.
OpenStreamRejectsMutParams(other, streamCallback) ==
    streamCallback # NULL /\ (other.inputParameters # NULL \/ other.outputParameters # NULL)
OpenStreamRejects(other, streamCallback) == streamCallback # NULL

\* Line 64: the store through the output parameter, reached only when the
\* call was not rejected and only defined for a non-null location.
OpenStreamStoreMutEarly(rejected, stream, h) ==
    IF stream = NULL THEN h ELSE [h EXCEPT ![stream] = StreamSentinel]
OpenStreamStore(rejected, stream, h) ==
    IF rejected \/ stream = NULL THEN h ELSE [h EXCEPT ![stream] = StreamSentinel]

\* Line 64 with stream = NULL writes through a null pointer, which is undefined:
\* the process is killed, or (where address 0 is writable) the store lands
\* outside the caller's variables and the function returns.
NullStoreOutcomes == {Crash, paNoError}

Pa_OpenStream ==
    \E stream \in StreamLocs, streamCallback \in Callbacks, other \in OtherOpenArgs :
        LET args == [stream |-> stream, streamCallback |-> streamCallback,
                     other |-> other]
            rejected == OpenStreamRejects(other, streamCallback)
        IN  /\ handles' = OpenStreamStore(rejected, stream, handles)
            /\ UNCHANGED <<inputDevice, outputDevice, buf>>
            /\ IF rejected
               THEN Call("Pa_OpenStream", args, paInternalError)
               ELSE IF stream = NULL
               THEN \E outcome \in NullStoreOutcomes :
                        IF outcome = Crash
                        THEN /\ ~Crashed
                             /\ prev' = Summary(last)
                             /\ last' = [op |-> "Pa_OpenStream", args |-> args,
                                         result |-> Crash, returned |-> FALSE]
                        ELSE Call("Pa_OpenStream", args, outcome)
               ELSE Call("Pa_OpenStream", args, paNoError)

Pa_CloseStream ==
    \E stream \in Handles :
        Call("Pa_CloseStream", [stream |-> stream], LifecycleResult(stream)) /\ Quiet

Pa_StartStream ==
    \E stream \in Handles :
        Call("Pa_StartStream", [stream |-> stream], LifecycleResult(stream)) /\ Quiet

Pa_StopStream ==
    \E stream \in Handles :
        Call("Pa_StopStream", [stream |-> stream], LifecycleResult(stream)) /\ Quiet

Pa_AbortStream ==
    \E stream \in Handles :
        Call("Pa_AbortStream", [stream |-> stream], LifecycleResult(stream)) /\ Quiet

Pa_IsStreamStopped ==
    \E stream \in Handles :
        Call("Pa_IsStreamStopped", [stream |-> stream], IsStreamStopped(stream)) /\ Quiet

Pa_IsStreamActive ==
    \E stream \in Handles :
        Call("Pa_IsStreamActive", [stream |-> stream], IsStreamActive(stream)) /\ Quiet

Pa_ReadStream ==
    \E stream \in Handles, buffer \in BufferPtrs, frames \in Frames :
        /\ Call("Pa_ReadStream", [stream |-> stream, buffer |-> buffer, frames |-> frames],
                TransferResult(stream, buffer, frames))
        /\ buf' = ReadBuffer(buffer, frames, buf)
        /\ UNCHANGED <<inputDevice, outputDevice, handles>>

\* The buffer of Pa_WriteStream is const void*: it cannot be written through.
Pa_WriteStream ==
    \E stream \in Handles, buffer \in BufferPtrs, frames \in Frames :
        /\ Call("Pa_WriteStream", [stream |-> stream, buffer |-> buffer, frames |-> frames],
                TransferResult(stream, buffer, frames))
        /\ Quiet

Next ==
    \/ Pa_Initialize
    \/ Pa_Terminate
    \/ Pa_GetVersion
    \/ Pa_GetVersionText
    \/ Pa_GetDeviceCount
    \/ Pa_GetDefaultInputDevice
    \/ Pa_GetDefaultOutputDevice
    \/ Pa_GetDeviceInfo
    \/ Pa_OpenStream
    \/ Pa_CloseStream
    \/ Pa_StartStream
    \/ Pa_StopStream
    \/ Pa_AbortStream
    \/ Pa_IsStreamStopped
    \/ Pa_IsStreamActive
    \/ Pa_ReadStream
    \/ Pa_WriteStream

Spec == Init /\ [][Next]_vars

----------------------------------------------------------------------------
(* Properties *)

IsOpen(c) == c.op = "Pa_OpenStream"

\* C1: Pa_OpenStream with a non-null callback returns paInternalError,
\* whatever the other arguments are and whatever was called before.
C1_CallbackRejected ==
    (IsOpen(last) /\ last.args.streamCallback # NULL)
        => (last.returned /\ last.result = paInternalError)

\* A rejected open with all other arguments supplied, right after a successful one.
C1_Witness ==
    /\ IsOpen(last) /\ last.args.streamCallback # NULL
    /\ last.args.other.inputParameters # NULL /\ last.args.other.userData # NULL
    /\ last.args.stream \in StreamVars
    /\ last.result = paInternalError
    /\ IsOpen(prev) /\ prev.result = paNoError

\* C2: Pa_OpenStream with a null callback returns paNoError and leaves a
\* non-null handle in the output parameter, for every output-parameter location.
C2_NullCallbackSucceeds ==
    (IsOpen(last) /\ last.args.streamCallback = NULL)
        => /\ last.returned
           /\ last.result = paNoError
           /\ last.args.stream # NULL
           /\ handles[last.args.stream] # NULL

\* C3: Pa_GetDeviceInfo returns NULL for every index other than 0 and 1.
C3_UnknownDeviceIsNull ==
    (last.op = "Pa_GetDeviceInfo" /\ last.args.device \notin {0, 1})
        => last.result = NULL

\* paNoDevice looked up right after another unknown index.
C3_Witness ==
    /\ last.op = "Pa_GetDeviceInfo" /\ last.args.device = -1 /\ last.result = NULL
    /\ prev.op = "Pa_GetDeviceInfo" /\ prev.result = NULL

\* C4: Pa_GetDeviceInfo(0) and Pa_GetDeviceInfo(1) return a non-null
\* descriptor with 2 in / 0 out and 0 in / 2 out channels respectively, and
\* the descriptors keep their initial contents in every state.
C4_KnownDeviceChannels ==
    /\ inputDevice = InputDeviceInit
    /\ outputDevice = OutputDeviceInit
    /\ (last.op = "Pa_GetDeviceInfo" /\ last.args.device \in {0, 1})
          => /\ last.result # NULL
             /\ Deref(last.result).maxInputChannels = (IF last.args.device = 0 THEN 2 ELSE 0)
             /\ Deref(last.result).maxOutputChannels = (IF last.args.device = 0 THEN 0 ELSE 2)

\* The output device looked up after a stream was opened.
C4_Witness ==
    /\ last.op = "Pa_GetDeviceInfo" /\ last.args.device = 1
    /\ last.result = "&outputDevice"
    /\ Deref(last.result).maxOutputChannels = 2
    /\ IsOpen(prev) /\ prev.result = paNoError

\* C5: Pa_IsStreamStopped returns 1 (nonzero) and Pa_IsStreamActive returns 0
\* for every handle, in every reachable state.
C5_AlwaysStoppedNeverActive ==
    /\ last.op = "Pa_IsStreamStopped" => last.result = 1
    /\ last.op = "Pa_IsStreamActive" => last.result = 0

\* The handle an open returned is queried right after it was started.
C5_Witness ==
    /\ last.op = "Pa_IsStreamStopped" /\ last.args.stream = StreamSentinel
    /\ last.result = 1
    /\ prev.op = "Pa_StartStream" /\ prev.stream = StreamSentinel /\ prev.result = paNoError
    /\ \E v \in StreamVars : handles[v] = StreamSentinel

LifecycleOps ==
    {"Pa_Initialize", "Pa_Terminate", "Pa_CloseStream", "Pa_StartStream",
     "Pa_StopStream", "Pa_AbortStream"}

\* C6: Pa_Initialize, Pa_Terminate, Pa_CloseStream, Pa_StartStream,
\* Pa_StopStream and Pa_AbortStream return paNoError in any call order and
\* for any handle.
C6_LifecycleAlwaysSucceeds ==
    last.op \in LifecycleOps => (last.returned /\ last.result = paNoError)

\* A handle that was never opened is started twice in a row.
C6_Witness ==
    /\ last.op = "Pa_StartStream" /\ last.result = paNoError
    /\ prev.op = "Pa_StartStream" /\ prev.stream = last.args.stream
    /\ \A v \in StreamVars : handles[v] # StreamSentinel

\* C7: Pa_ReadStream and Pa_WriteStream return paNoError for any handle and
\* any frame count.
C7_TransferAlwaysSucceeds ==
    last.op \in {"Pa_ReadStream", "Pa_WriteStream"}
        => (last.returned /\ last.result = paNoError)

\* Zero frames read from a null handle, with no stream ever opened or started.
C7_Witness ==
    /\ last.op = "Pa_ReadStream" /\ last.args.stream = NULL /\ last.args.frames = 0
    /\ last.result = paNoError
    /\ prev.op # "Pa_StartStream"
    /\ \A v \in StreamVars : handles[v] # StreamSentinel

\* C8: Pa_GetDeviceCount returns 2 whatever was called before, and the
\* default input (0) and output (1) indices lie below that count.
C8_DeviceCountFixed ==
    /\ last.op = "Pa_GetDeviceCount" => last.result = 2
    /\ last.op = "Pa_GetDefaultInputDevice"
          => (last.result = 0 /\ last.result < GetDeviceCount)
    /\ last.op = "Pa_GetDefaultOutputDevice"
          => (last.result = 1 /\ last.result < GetDeviceCount)

\* The count is asked for right after Pa_Terminate.
C8_Witness ==
    /\ last.op = "Pa_GetDeviceCount" /\ last.result = 2
    /\ prev.op = "Pa_Terminate"

\* C9: Pa_ReadStream and Pa_WriteStream leave the caller's buffer as it was.
C9_BufferUntouched ==
    [][last'.op \in {"Pa_ReadStream", "Pa_WriteStream"} => buf' = buf]_vars

\* A read of more frames than the buffer holds left its nonzero sample in place.
C9_Witness ==
    /\ last.op = "Pa_ReadStream" /\ last.args.buffer = "&buf"
    /\ last.args.frames > BufLen
    /\ last.result = paNoError
    /\ buf[1] = 1

\* C10: a rejected Pa_OpenStream leaves every handle variable of the caller
\* as it was; an accepted one stores the sentinel, so the handle of the
\* previous accepted open equals it.
C10_OpenStores ==
    [][IsOpen(last') =>
         /\ last'.result = paInternalError => handles' = handles
         /\ (last'.result = paNoError /\ last'.args.stream # NULL) =>
               /\ handles'[last'.args.stream] = StreamSentinel
               /\ \A v \in StreamVars \ {last'.args.stream} : handles'[v] = handles[v]
               /\ (IsOpen(prev') /\ prev'.result = paNoError /\ prev'.stream # NULL)
                     => handles'[prev'.stream] = handles'[last'.args.stream]
      ]_vars

\* A rejected open into h1, which keeps its old value, after an accepted open into h2.
C10_Witness ==
    /\ IsOpen(last) /\ last.result = paInternalError /\ last.args.stream = "h1"
    /\ handles["h1"] = OtherStream
    /\ IsOpen(prev) /\ prev.result = paNoError /\ prev.stream = "h2"
    /\ handles["h2"] = StreamSentinel

====
